---- MODULE Spec2Model ----
(***************************************************************************)
(* Model of nordpool/elbas.py: class Prices (fetch, hourly, _fetch_json,   *)
(* _parse_json).  Strings that the code splits, joins or parses are        *)
(* sequences of one-character strings; timestamps are seconds since        *)
(* 1970-01-01T00:00; floats are fixed-point integers in thousandths.       *)
(* The end_date argument only shapes the endDate parameter of the request  *)
(* (lines 99-103, 109) and is left out.                                    *)
(***************************************************************************)
EXTENDS Integers, Sequences, FiniteSets, TLC

VARIABLES
    self_currency,   \* Base.currency, set at construction
    pc,              \* position in fetch/_fetch_json/_parse_json
    data_type,       \* the data_type argument (0 before the call)
    columns,         \* the columns argument (Maybe: <<>> is None, <<v>> a value)
    areas,           \* the areas argument   (Maybe: <<>> is None, <<v>> a value)
    request,         \* Maybe: the params of the HTTP GET that was issued
    data,            \* Maybe: the JSON document r.json() returned
    updated,         \* Maybe: local `updated`
    areas_data,      \* local `areas_data`: area -> (column name -> list of points)
    ri,              \* 1-based index of the row the loop of line 47 is at
    ci,              \* 1-based index of the column the loop of line 60 is at
    dt_arg,          \* the string handed to _parse_dt at lines 55-57
    row_start_time,  \* local `row_start_time`
    row_end_time,    \* local `row_end_time`
    outcome,         \* "none" while running, "ok", or the exception raised
    result           \* Maybe: the dictionary returned at line 94

vars == <<self_currency, pc, data_type, columns, areas, request, data, updated, areas_data,
          ri, ci, dt_arg, row_start_time, row_end_time, outcome, result>>

----------------------------------------------------------------------------
(* Python values *)

None == <<>>
Some(v) == <<v>>
IsNone(m) == m = <<>>
Val(m) == m[1]

EmptyDict == [k \in {} |-> <<>>]

\* dict "d[k] = v" / d.update({k: v})
DictPut(d, k, v) == [x \in (DOMAIN d) \cup {k} |-> IF x = k THEN v ELSE d[x]]

Digits == <<"0", "1", "2", "3", "4", "5", "6", "7", "8", "9">>

IsDigit(c) == \E i \in 1..10 : Digits[i] = c

DigitVal(c) == (CHOOSE i \in 1..10 : Digits[i] = c) - 1

AllDigits(s) == \A i \in 1..Len(s) : IsDigit(s[i])

RECURSIVE DigitsVal(_)
DigitsVal(s) ==
    IF Len(s) = 0 THEN 0
    ELSE 10 * DigitsVal(SubSeq(s, 1, Len(s) - 1)) + DigitVal(s[Len(s)])

RECURSIVE NatStr(_)
NatStr(n) ==
    IF n < 10 THEN <<Digits[n + 1]>>
    ELSE NatStr(n \div 10) \o <<Digits[(n % 10) + 1]>>

\* str.split(sep) for a one-character separator: always at least one piece
RECURSIVE Split(_, _)
Split(s, sep) ==
    IF \A i \in 1..Len(s) : s[i] # sep THEN <<s>>
    ELSE LET k == CHOOSE i \in 1..Len(s) :
                      s[i] = sep /\ \A j \in 1..(i - 1) : s[j] # sep
         IN  <<SubSeq(s, 1, k - 1)>> \o Split(SubSeq(s, k + 1, Len(s)), sep)

\* sep.join(parts)
RECURSIVE Join(_, _)
Join(parts, sep) ==
    IF Len(parts) = 0 THEN <<>>
    ELSE IF Len(parts) = 1 THEN parts[1]
    ELSE parts[1] \o sep \o Join(Tail(parts), sep)

\* int(s) on a token holding no whitespace: an optional sign, then digits
IntOk(s) ==
    \/ Len(s) >= 1 /\ AllDigits(s)
    \/ Len(s) >= 2 /\ s[1] \in {"+", "-"} /\ AllDigits(Tail(s))

IntVal(s) ==
    IF s[1] = "-" THEN 0 - DigitsVal(Tail(s))
    ELSE IF s[1] = "+" THEN DigitsVal(Tail(s))
    ELSE DigitsVal(s)

\* format(n, "02"): zero-padded to width 2, the sign counting in the width
Format02(n) ==
    IF n < 0 THEN <<"-">> \o NatStr(0 - n)
    ELSE IF n < 10 THEN <<"0">> \o NatStr(n)
    ELSE NatStr(n)

----------------------------------------------------------------------------
(* The collaborator Base (nordpool/base.py): _parse_dt and _conv_to_float, *)
(* as the specification describes them: ISO-like datetime parsing and      *)
(* float parsing with a comma or a dot as the decimal separator.           *)

IsLeap(y) == (y % 4 = 0 /\ y % 100 # 0) \/ y % 400 = 0

DaysInMonth(y, m) ==
    IF m = 2 THEN (IF IsLeap(y) THEN 29 ELSE 28)
    ELSE IF m \in {4, 6, 9, 11} THEN 30 ELSE 31

\* days from 1970-01-01 to the civil date y-m-d
DaysFromCivil(y, m, d) ==
    LET yy  == IF m <= 2 THEN y - 1 ELSE y
        era == yy \div 400
        yoe == yy - era * 400
        mp  == IF m > 2 THEN m - 3 ELSE m + 9
        doy == (153 * mp + 2) \div 5 + d - 1
        doe == yoe * 365 + yoe \div 4 - yoe \div 100 + doy
    IN  era * 146097 + doe - 719468

SecondsPerHour == 3600

Timestamp(y, m, d, hh, mm, ss) ==
    IF /\ m \in 1..12
       /\ d \in 1..DaysInMonth(y, m)
       /\ hh \in 0..23 /\ mm \in 0..59 /\ ss \in 0..59
    THEN Some(DaysFromCivil(y, m, d) * 24 * SecondsPerHour
              + hh * SecondsPerHour + mm * 60 + ss)
    ELSE None

Num(s, a, b) == DigitsVal(SubSeq(s, a, b))

\* _parse_dt: "YYYYMMDD-HH", "YYYY-MM" and "YYYY-MM-DDTHH:MM:SS"; None is a
\* parser error
ParseDt(s) ==
    IF /\ Len(s) = 11 /\ s[9] = "-"
       /\ AllDigits(SubSeq(s, 1, 8)) /\ AllDigits(SubSeq(s, 10, 11))
    THEN Timestamp(Num(s, 1, 4), Num(s, 5, 6), Num(s, 7, 8), Num(s, 10, 11), 0, 0)
    ELSE IF /\ Len(s) = 7 /\ s[5] = "-"
            /\ AllDigits(SubSeq(s, 1, 4)) /\ AllDigits(SubSeq(s, 6, 7))
    THEN Timestamp(Num(s, 1, 4), Num(s, 6, 7), 1, 0, 0, 0)
    ELSE IF /\ Len(s) = 19
            /\ s[5] = "-" /\ s[8] = "-" /\ s[11] = "T" /\ s[14] = ":" /\ s[17] = ":"
            /\ \A i \in (1..19) \ {5, 8, 11, 14, 17} : IsDigit(s[i])
    THEN Timestamp(Num(s, 1, 4), Num(s, 6, 7), Num(s, 9, 10),
                   Num(s, 12, 13), Num(s, 15, 16), Num(s, 18, 19))
    ELSE None

\* _conv_to_float: [sign] digits [(","|".") 1 to 3 digits], in thousandths;
\* None is a ValueError
ConvToFloat(s) ==
    LET neg  == Len(s) >= 1 /\ s[1] = "-"
        body == IF Len(s) >= 1 /\ s[1] \in {"-", "+"} THEN Tail(s) ELSE s
        dot  == [i \in 1..Len(body) |-> IF body[i] = "," THEN "." ELSE body[i]]
        p    == Split(dot, ".")
        int  == p[1]
        frac == IF Len(p) = 2 THEN p[2] ELSE <<>>
        pad  == frac \o SubSeq(<<"0", "0", "0">>, 1, 3 - Len(frac))
        mag  == DigitsVal(int) * 1000 + DigitsVal(pad)
    IN  IF /\ Len(p) \in {1, 2}
           /\ Len(int) >= 1 /\ AllDigits(int)
           /\ (Len(p) = 2 => Len(frac) \in 1..3 /\ AllDigits(frac))
        THEN Some(IF neg THEN 0 - mag ELSE mag)
        ELSE None

----------------------------------------------------------------------------
(* Inputs *)

MaxRows == 2

Currencies == {"EUR", "SEK"}

\* Prices.HOURLY
HOURLY == 194

HourlyColumns == <<"Product", "High", "Low", "Last", "Avg", "Volume">>

\* the `columns` a caller passes to fetch
ColumnArgs == {<<>>, <<"High">>, <<"Avg", "Product">>}

\* the `areas` a caller passes: None (the default), or a list
AreaArgs == {None, Some(<<>>), Some(<<"FI">>), Some(<<"FI", "SE">>)}

\* the `areas` and `columns` a caller passes to hourly
HourlyAreaArgs == {None, Some(<<"FI">>)}

HourlyColumnArgs == {None, Some(<<"Avg">>)}

\* row names
N_h01  == <<"P","H","-","2","0","2","3","1","0","1","5","-","0","1">>
N_h03  == <<"P","H","-","2","0","2","3","1","0","1","5","-","0","3">>
N_h24  == <<"P","H","-","2","0","2","3","1","0","1","5","-","2","4">>
N_sp02 == <<"P","H"," ","2","0","2","3","1","0","1","5"," ","0","2">>
N_iso3 == <<"P","H","-","2","0","2","3","-","1","0","-","1","5","-","3">>
N_qh   == <<"Q","H","-","2","0","2","3","1","0","1","5","-","0","3">>
N_phx  == <<"P","H","X","-","2","0","2","3","1","0","1","5","-","0","3">>
N_ph   == <<"P","H">>
N_hxx  == <<"P","H","-","2","0","2","3","1","0","1","5","-","x","x">>
N_h0   == <<"P","H","-","2","0","2","3","1","0","1","5","-","0">>

\* column values
V_10c5 == <<"1","0",",","5">>
V_20c5 == <<"2","0",",","5">>
V_1d25 == <<"1",".","2","5">>
V_7    == <<"7">>
V_bad  == <<"n","/","a">>

Col(n, v) == [Name |-> n, Value |-> v]

Row(n, x, cs) == [Name |-> n, IsExtraRow |-> x, Columns |-> cs]

\* the rows a response is built from
SampleRows == {
    Row(Some(N_h01), FALSE, <<Col("Product", N_h01), Col("High", V_10c5), Col("Avg", V_10c5)>>),
    Row(Some(N_h03), FALSE, <<Col("Avg", V_20c5), Col("Low", V_1d25)>>),
    Row(Some(N_h03), TRUE,  <<Col("Avg", V_20c5), Col("Volume", V_bad)>>),
    Row(Some(N_h24), FALSE, <<Col("Avg", V_10c5), Col("Avg", V_20c5)>>),
    Row(Some(N_sp02), FALSE, <<Col("High", V_7), Col("Avg", V_bad)>>),
    Row(Some(N_iso3), FALSE, <<Col("High", V_7)>>),
    Row(None, FALSE, <<Col("Last", V_7)>>),
    Row(Some(N_qh), FALSE, <<Col("Avg", V_bad), Col("Last", V_7)>>),
    Row(Some(N_phx), TRUE, <<Col("High", V_7)>>),
    Row(Some(N_ph), FALSE, <<Col("High", V_7)>>),
    Row(Some(N_hxx), FALSE, <<Col("High", V_7)>>),
    Row(Some(N_h0), FALSE, <<Col("High", V_7)>>)
}

RowLists == UNION {[1..n -> SampleRows] : n \in 0..MaxRows}

D_upd == <<"2","0","2","3","-","1","0","-","1","6","T","1","0",":","4","1",":","1","3">>

\* the JSON documents the server may answer with
Responses ==
    {[currency |-> c, data |-> [DateUpdated |-> D_upd, Rows |-> rs]] :
        c \in Currencies, rs \in RowLists}

----------------------------------------------------------------------------
(* Prices *)

Range(f) == {f[i] : i \in DOMAIN f}

RECURSIVE JoinStr(_)
\* "".join(areas) on a list of strings
JoinStr(l) == IF Len(l) = 0 THEN "" ELSE l[1] \o JoinStr(Tail(l))

Rows == Val(data).data.Rows

CurRow == Rows[ri]

AreaKey == Val(areas)[1]

\* the currency check left out
CurrencyOk_NoCheck(currency) == TRUE

\* line 36: the response's currency against the configured one
CurrencyOk(currency) == currency = self_currency

\* one key per requested area
InitAreasData_AllAreas(areas_list) == [a \in Range(areas_list) |-> EmptyDict]

\* lines 44-45: areas_data = {}; areas_data[areas[0]] = {}
InitAreasData(areas_list) == DictPut(EmptyDict, areas_list[1], EmptyDict)

\* line 51: " ".join(r["Name"].split("-")).split(" ")
Tokens(row_name) == Split(Join(Split(row_name, "-"), <<" ">>), " ")

\* name[0].startswith("PH")
IsHourly_Prefix(name) == Len(name[1]) >= 2 /\ SubSeq(name[1], 1, 2) = <<"P", "H">>

\* line 53: name[0] == "PH"
IsHourly(name) == name[1] = <<"P", "H">>

\* the hour token taken as 0-based
DtArg_NoShift(name) == Join(<<name[2], Format02(IntVal(name[3]))>>, <<"-">>)

\* line 56: "-".join([name[1], format(int(name[2]) - 1, "02")])
DtArg(name) == Join(<<name[2], Format02(IntVal(name[3]) - 1)>>, <<"-">>)

\* timedelta(days=1)
RowEndTime_Day(start) == start + 24 * SecondsPerHour

\* line 59: row_start_time + timedelta(hours=1)
RowEndTime(start) == start + SecondsPerHour

\* name not in columns, also when columns is empty
ColumnSkipped_NoEmptyCase(cols, col_name) == col_name \notin Range(cols)

\* line 63: columns and name not in columns
ColumnSkipped(cols, col_name) == cols # <<>> /\ col_name \notin Range(cols)

\* the flag ignored
SkipsPoints_Never(r) == FALSE

\* line 73: r["IsExtraRow"]
SkipsPoints(r) == r.IsExtraRow

\* lines 78-93: the dictionary appended to the column's list
Point(start, end, value) == [start |-> start, end |-> end, value |-> value]

\* list.insert(0, p)
AppendPoint_Front(points, p) == <<p>> \o points

\* lines 78, 87: list.append
AppendPoint(points, p) == Append(points, p)

Init ==
    /\ self_currency \in Currencies
    /\ pc = "idle"
    /\ data_type = 0
    /\ columns = None
    /\ areas = None
    /\ request = None
    /\ data = None
    /\ updated = None
    /\ areas_data = EmptyDict
    /\ ri = 0
    /\ ci = 0
    /\ dt_arg = None
    /\ row_start_time = None
    /\ row_end_time = None
    /\ outcome = "none"
    /\ result = None

Raise(exc) ==
    /\ outcome' = exc
    /\ pc' = "done"

\* fetch(data_type, columns, end_date=None, areas=None), up to its call of
\* _fetch_json
Fetch(dt, cols, ar) ==
    /\ pc = "idle"
    /\ data_type' = dt
    /\ columns' = Some(cols)
    /\ areas' = ar
    /\ pc' = "fetch_json"
    /\ UNCHANGED <<self_currency, request, data, updated, areas_data, ri, ci,
                   dt_arg, row_start_time, row_end_time, outcome, result>>

\* hourly(end_date=None, areas=None, columns=None), up to fetch's call of
\* _fetch_json
Hourly(ar, cols) ==
    /\ pc = "idle"
    /\ data_type' = HOURLY
    /\ columns' = IF IsNone(cols) THEN Some(HourlyColumns) ELSE cols
    /\ areas' = ar
    /\ pc' = "fetch_json"
    /\ UNCHANGED <<self_currency, request, data, updated, areas_data, ri, ci,
                   dt_arg, row_start_time, row_end_time, outcome, result>>

\* _fetch_json: the params of the GET are built ("".join(areas) raises
\* TypeError on None), the request is sent and the server answers `doc`
FetchJson(doc) ==
    /\ pc = "fetch_json"
    /\ IF IsNone(areas)
       THEN /\ Raise("TypeError")
            /\ UNCHANGED <<request, data>>
       ELSE /\ request' = Some([page |-> data_type,
                                currency |-> self_currency,
                                entityName |-> JoinStr(Val(areas))])
            /\ data' = Some(doc)
            /\ pc' = "parse_json"
            /\ UNCHANGED outcome
    /\ UNCHANGED <<self_currency, data_type, columns, areas, updated, areas_data,
                   ri, ci, dt_arg, row_start_time, row_end_time, result>>

\* _fetch_json: requests.get or r.json() raises; the error propagates
FetchJsonFails ==
    /\ pc = "fetch_json"
    /\ ~IsNone(areas)
    /\ request' = Some([page |-> data_type,
                        currency |-> self_currency,
                        entityName |-> JoinStr(Val(areas))])
    /\ Raise("TransportError")
    /\ UNCHANGED <<self_currency, data_type, columns, areas, data, updated,
                   areas_data, ri, ci, dt_arg, row_start_time, row_end_time, result>>

\* _parse_json lines 28-37: areas and columns are lists already (list() is
\* not applied); the currency check
CheckCurrency ==
    /\ pc = "parse_json"
    /\ IF CurrencyOk(Val(data).currency)
       THEN pc' = "header" /\ UNCHANGED outcome
       ELSE Raise("CurrencyMismatch")
    /\ UNCHANGED <<self_currency, data_type, columns, areas, request, data, updated,
                   areas_data, ri, ci, dt_arg, row_start_time, row_end_time, result>>

\* _parse_json lines 40-45: updated, and the area map with its single key
ParseHeader ==
    /\ pc = "header"
    /\ LET u == ParseDt(Val(data).data.DateUpdated) IN
       IF IsNone(u)
       THEN Raise("ParserError") /\ UNCHANGED <<updated, areas_data, ri>>
       ELSE IF Len(Val(areas)) = 0
       THEN Raise("IndexError") /\ updated' = u /\ UNCHANGED <<areas_data, ri>>
       ELSE /\ updated' = u
            /\ areas_data' = InitAreasData(Val(areas))
            /\ ri' = 1
            /\ pc' = "rows"
            /\ UNCHANGED outcome
    /\ UNCHANGED <<self_currency, data_type, columns, areas, request, data,
                   ci, dt_arg, row_start_time, row_end_time, result>>

\* _parse_json lines 47-59: the head of one iteration of the row loop
RowStep ==
    /\ pc = "rows"
    /\ ri <= Len(Rows)
    /\ IF IsNone(CurRow.Name)
       THEN /\ ri' = ri + 1
            /\ UNCHANGED <<pc, outcome, ci, dt_arg, row_start_time, row_end_time>>
       ELSE LET name == Tokens(Val(CurRow.Name)) IN
            IF ~IsHourly(name)
            THEN /\ ri' = ri + 1
                 /\ UNCHANGED <<pc, outcome, ci, dt_arg, row_start_time, row_end_time>>
            ELSE IF Len(name) < 3
            THEN /\ Raise("IndexError")
                 /\ UNCHANGED <<ri, ci, dt_arg, row_start_time, row_end_time>>
            ELSE IF ~IntOk(name[3])
            THEN /\ Raise("ValueError")
                 /\ UNCHANGED <<ri, ci, dt_arg, row_start_time, row_end_time>>
            ELSE LET arg == DtArg(name)
                     t   == ParseDt(arg)
                 IN  IF IsNone(t)
                     THEN /\ Raise("ParserError")
                          /\ dt_arg' = Some(arg)
                          /\ UNCHANGED <<ri, ci, row_start_time, row_end_time>>
                     ELSE /\ dt_arg' = Some(arg)
                          /\ row_start_time' = t
                          /\ row_end_time' = Some(RowEndTime(Val(t)))
                          /\ ci' = 1
                          /\ pc' = "cols"
                          /\ UNCHANGED <<ri, outcome>>
    /\ UNCHANGED <<self_currency, data_type, columns, areas, request, data, updated,
                   areas_data, result>>

\* _parse_json lines 60-93: one iteration of the column loop
ColStep ==
    /\ pc = "cols"
    /\ ci <= Len(CurRow.Columns)
    /\ LET c      == CurRow.Columns[ci]
           name   == c.Name
           series == areas_data[AreaKey]
           inited == IF name \in DOMAIN series THEN series
                     ELSE DictPut(series, name, <<>>)
           f      == ConvToFloat(c.Value)
           value  == IF name = "Product" THEN c.Value ELSE Val(f)
           point  == Point(Val(row_start_time), Val(row_end_time), value)
       IN  IF ColumnSkipped(Val(columns), name)
           THEN /\ ci' = ci + 1
                /\ UNCHANGED <<areas_data, pc, outcome>>
           ELSE IF SkipsPoints(CurRow)
           THEN /\ areas_data' = DictPut(areas_data, AreaKey, inited)
                /\ ci' = ci + 1
                /\ UNCHANGED <<pc, outcome>>
           ELSE IF name # "Product" /\ IsNone(f)
           THEN /\ areas_data' = DictPut(areas_data, AreaKey, inited)
                /\ Raise("ValueError")
                /\ UNCHANGED ci
           ELSE /\ areas_data' =
                      DictPut(areas_data, AreaKey,
                              DictPut(inited, name, AppendPoint(inited[name], point)))
                /\ ci' = ci + 1
                /\ UNCHANGED <<pc, outcome>>
    /\ UNCHANGED <<self_currency, data_type, columns, areas, request, data, updated,
                   ri, dt_arg, row_start_time, row_end_time, result>>

\* the column loop of line 60 is exhausted: on to the next row
ColsDone ==
    /\ pc = "cols"
    /\ ci > Len(CurRow.Columns)
    /\ ri' = ri + 1
    /\ pc' = "rows"
    /\ UNCHANGED <<self_currency, data_type, columns, areas, request, data, updated,
                   areas_data, ci, dt_arg, row_start_time, row_end_time, outcome,
                   result>>

\* line 94: the row loop is exhausted and the result is returned
Return ==
    /\ pc = "rows"
    /\ ri > Len(Rows)
    /\ result' = Some([updated |-> Val(updated),
                       currency |-> Val(data).currency,
                       areas |-> areas_data])
    /\ outcome' = "ok"
    /\ pc' = "done"
    /\ UNCHANGED <<self_currency, data_type, columns, areas, request, data, updated,
                   areas_data, ri, ci, dt_arg, row_start_time, row_end_time>>

Next ==
    \/ \E cols \in ColumnArgs, ar \in AreaArgs : Fetch(HOURLY, cols, ar)
    \/ \E ar \in HourlyAreaArgs, cols \in HourlyColumnArgs : Hourly(ar, cols)
    \/ \E doc \in Responses : FetchJson(doc)
    \/ FetchJsonFails
    \/ CheckCurrency
    \/ ParseHeader
    \/ RowStep
    \/ ColStep
    \/ ColsDone
    \/ Return

Spec == Init /\ [][Next]_vars

----------------------------------------------------------------------------
(* Properties *)

PH == <<"P", "H">>

Separators == {"-", " "}

\* the characters of s before its first '-' or space
FirstToken(s) ==
    LET stops == {i \in 1..Len(s) : s[i] \in Separators}
    IN  IF stops = {} THEN s
        ELSE SubSeq(s, 1, (CHOOSE i \in stops : \A j \in stops : i <= j) - 1)

NotHourlyName(nm) == IsNone(nm) \/ FirstToken(Val(nm)) # PH

AtRow == pc = "rows" /\ ri <= Len(Rows)

Returned == pc = "done" /\ outcome = "ok"

Series == Val(result).areas[AreaKey]

Requested(col_name) == Val(columns) = <<>> \/ col_name \in Range(Val(columns))

\* the column names of the rows of the response that satisfy keep
ColumnNamesOf(keep(_)) ==
    UNION {{Rows[i].Columns[k].Name : k \in 1..Len(Rows[i].Columns)} :
              i \in {j \in 1..Len(Rows) : keep(Rows[j])}}

AnyRow(r) == TRUE

HourlyRow(r) == ~NotHourlyName(r.Name)

\* C1: a returned result carries the configured currency; a response whose
\* currency differs from the configured one ends in CurrencyMismatch with no
\* result, no area map and no row walked, whatever its rows are.
C1_CurrencyValidated ==
    /\ ~IsNone(result) => Val(result).currency = self_currency
    /\ (~IsNone(data) /\ Val(data).currency # self_currency) =>
          /\ IsNone(result)
          /\ areas_data = EmptyDict
          /\ ri = 0 /\ ci = 0
          /\ pc \in {"parse_json", "done"}
          /\ pc = "done" => outcome = "CurrencyMismatch"

C1_Witness ==
    /\ pc = "done"
    /\ outcome = "CurrencyMismatch"
    /\ Val(data).currency # self_currency
    /\ \E i \in 1..Len(Rows) : Rows[i].Name = Some(N_ph)

\* C2: a call with areas omitted (None) does not fail on that account: the
\* request is issued and the call does not end in TypeError.
C2_AreasOmitted ==
    (pc = "done" /\ IsNone(areas)) => (~IsNone(request) /\ outcome # "TypeError")

\* C3: a row whose Name is null or whose first token is not "PH" appends no
\* point, creates no column list and raises nothing: the walk moves on to the
\* next row with the area map as it was.
C3_NonHourlyRowSkipped ==
    [][(AtRow /\ NotHourlyName(CurRow.Name)) =>
          /\ areas_data' = areas_data
          /\ outcome' = "none"
          /\ pc' = "rows"
          /\ ri' = ri + 1]_vars

C3_Witness ==
    /\ Returned
    /\ Len(Rows) = 2
    /\ Rows[1].Name = Some(N_qh)
    /\ Rows[2].Name = None
    /\ Series = EmptyDict

\* C4 as stated: with columns empty every column name present in the response
\* is a key of the area's series map; with columns non-empty the keys are
\* among the requested names.
C4_AllResponseColumns ==
    Returned =>
        /\ Val(columns) = <<>> => ColumnNamesOf(AnyRow) \subseteq DOMAIN Series
        /\ Val(columns) # <<>> => DOMAIN Series \subseteq Range(Val(columns))

\* C4 amended: the keys of the area's series map are exactly the requested
\* column names that occur in a row whose first token is "PH" (every such
\* name when columns is empty); column names of skipped rows are no keys.
C4_HourlyRowColumns ==
    Returned =>
        DOMAIN Series = {n \in ColumnNamesOf(HourlyRow) : Requested(n)}

C4_Witness ==
    /\ Returned
    /\ Val(columns) = <<"High">>
    /\ "Avg" \in ColumnNamesOf(HourlyRow)
    /\ DOMAIN Series = {"High"}
    /\ Len(Series["High"]) = 1

\* C5: walking a column of a row with IsExtraRow set appends no point to any
\* column list (it may create an empty list for the column's name).
C5_ExtraRowNoPoints ==
    [][(pc = "cols" /\ CurRow.IsExtraRow) =>
          /\ outcome' = "none"
          /\ \A n \in DOMAIN areas_data'[AreaKey] :
                areas_data'[AreaKey][n] =
                    IF n \in DOMAIN areas_data[AreaKey]
                    THEN areas_data[AreaKey][n] ELSE <<>>]_vars

C5_Witness ==
    /\ Returned
    /\ Len(Rows) = 1
    /\ Rows[1].IsExtraRow
    /\ HourlyRow(Rows[1])
    /\ Val(columns) = <<>>
    /\ Series = [n \in {"Avg", "Volume"} |-> <<>>]

Retained(r) == HourlyRow(r) /\ ~r.IsExtraRow

\* the points row r gives for column col_name, in the order of its columns
RowPoints(r, col_name) ==
    LET cells == SelectSeq(r.Columns, LAMBDA c : c.Name = col_name)
        start == Val(ParseDt(DtArg(Tokens(Val(r.Name)))))
    IN  [k \in 1..Len(cells) |->
            [start |-> start,
             end   |-> start + SecondsPerHour,
             value |-> IF col_name = "Product" THEN cells[k].Value
                       ELSE Val(ConvToFloat(cells[k].Value))]]

RECURSIVE ExpectedPoints(_, _)
\* the points of the retained rows for column col_name, row after row
ExpectedPoints(rows, col_name) ==
    IF Len(rows) = 0 THEN <<>>
    ELSE (IF Retained(rows[1]) THEN RowPoints(rows[1], col_name) ELSE <<>>)
         \o ExpectedPoints(Tail(rows), col_name)

\* C6: in a returned result the list of each column holds exactly one point
\* per occurrence of that column in a retained (PH, non-extra) row, in the
\* order of the rows of the response.
C6_RowOrderPreserved ==
    Returned =>
        \A n \in DOMAIN Series : Series[n] = ExpectedPoints(Rows, n)

C6_Witness ==
    /\ Returned
    /\ Len(Rows) = 2
    /\ Rows[1].Name = Some(N_h01)
    /\ Rows[2].Name = Some(N_h03)
    /\ ~Rows[2].IsExtraRow
    /\ "Avg" \in DOMAIN Series
    /\ Len(Series["Avg"]) = 2
    /\ Series["Avg"][1].value = 10500
    /\ Series["Avg"][2].value = 20500
    /\ Series["Avg"][1].start < Series["Avg"][2].start

Times(p) == <<p.start, p.end>>

\* <<start, end>> of the points from position `from` on in the lists of ad
PointTimes(ad, from(_, _)) ==
    UNION {UNION {{Times(ad[a][n][j]) : j \in from(a, n)..Len(ad[a][n])} :
                     n \in DOMAIN ad[a]} :
              a \in DOMAIN ad}

First(a, n) == 1

\* the first position of list n of area a that the current step fills
Fresh(a, n) == IF n \in DOMAIN areas_data[a] THEN Len(areas_data[a][n]) + 1 ELSE 1

\* C7: every emitted point ends exactly one hour after it starts, and every
\* point appended while the columns of one row are walked carries that row's
\* start and end, which do not change during the walk.
C7_OneHourPoints ==
    /\ [](\A t \in PointTimes(areas_data, First) : t[2] - t[1] = 3600)
    /\ [][pc = "cols" =>
            /\ row_start_time' = row_start_time
            /\ row_end_time' = row_end_time
            /\ \A t \in PointTimes(areas_data', Fresh) :
                  t = <<Val(row_start_time), Val(row_end_time)>>]_vars

C7_Witness ==
    /\ pc = "cols"
    /\ CurRow.Name = Some(N_h24)
    /\ ci > Len(CurRow.Columns)
    /\ "Avg" \in DOMAIN areas_data[AreaKey]
    /\ Len(areas_data[AreaKey]["Avg"]) = 2
    /\ PointTimes(areas_data, First) =
          {<<Val(row_start_time), Val(row_start_time) + 3600>>}

\* C8: for a non-empty list of requested areas the area map has exactly one
\* key, areas[0], from its creation to the returned result.
C8_SingleAreaKey ==
    /\ pc \in {"rows", "cols"} => DOMAIN areas_data = {Val(areas)[1]}
    /\ Returned => DOMAIN Val(result).areas = {Val(areas)[1]}

C8_Witness ==
    /\ Returned
    /\ Val(areas) = <<"FI", "SE">>
    /\ DOMAIN Val(result).areas = {"FI"}
    /\ Len(Rows) = 2
    /\ "Avg" \in DOMAIN Series
    /\ Len(Series["Avg"]) = 3

\* a Name that does not have the shape "PH-<date>-<hour>": its first token is
\* not "PH", or it has fewer than three tokens, or its hour token is not an
\* integer, or is 0
Malformed(s) ==
    LET t == Tokens(s)
    IN  \/ t[1] # PH
        \/ Len(t) < 3
        \/ Len(t[3]) = 0
        \/ ~AllDigits(t[3])
        \/ DigitsVal(t[3]) = 0

\* C9: a row whose Name is non-null and malformed raises nothing and emits
\* no point.
C9_MalformedNameSkipped ==
    [][(AtRow /\ ~IsNone(CurRow.Name) /\ Malformed(Val(CurRow.Name))) =>
          /\ outcome' = "none"
          /\ areas_data' = areas_data]_vars

\* the k-th maximal run of non-separator characters of s, counting the empty
\* runs between adjacent separators
RECURSIVE Field(_, _)
Field(s, k) ==
    IF k = 1 THEN FirstToken(s)
    ELSE Field(SubSeq(s, Len(FirstToken(s)) + 2, Len(s)), k - 1)

\* the characters of s between its first and its last '-'
DatePart(s) ==
    LET dashes == {i \in 1..Len(s) : s[i] = "-"}
        first  == CHOOSE i \in dashes : \A j \in dashes : i <= j
        last   == CHOOSE i \in dashes : \A j \in dashes : i >= j
    IN  SubSeq(s, first + 1, last - 1)

HourPart(s) ==
    LET dashes == {i \in 1..Len(s) : s[i] = "-"}
        last   == CHOOSE i \in dashes : \A j \in dashes : i >= j
    IN  SubSeq(s, last + 1, Len(s))

S_20231015_00 == <<"2","0","2","3","1","0","1","5","-","0","0">>
S_20231015_02 == <<"2","0","2","3","1","0","1","5","-","0","2">>
S_2023_09     == <<"2","0","2","3","-","0","9">>

InColumns == pc = "cols" /\ ~IsNone(CurRow.Name)

\* C10 as stated: the string handed to the datetime parser is the complete
\* date part of the Name, "-", and the hour minus one on two digits.
C10_CompleteDatePart ==
    (InColumns /\ Cardinality({i \in 1..Len(Val(CurRow.Name)) :
                                  Val(CurRow.Name)[i] = "-"}) >= 2) =>
        dt_arg = Some(DatePart(Val(CurRow.Name)) \o <<"-">>
                      \o Format02(DigitsVal(HourPart(Val(CurRow.Name))) - 1))

\* C10 amended: the string handed to the datetime parser is the second field
\* of the Name, "-", and the third field minus one on two digits, the fields
\* being cut at every '-' and space: "PH-20231015-03" gives "20231015-02",
\* hour 01 gives "-00", and "PH-2023-10-15-3" gives "2023-09"; the row's end
\* is its start plus one hour.
C10_SecondAndThirdField ==
    InColumns =>
        LET nm == Val(CurRow.Name) IN
        /\ dt_arg = Some(Field(nm, 2) \o <<"-">>
                         \o Format02(DigitsVal(Field(nm, 3)) - 1))
        /\ nm = N_h03 => dt_arg = Some(S_20231015_02)
        /\ nm = N_h01 => dt_arg = Some(S_20231015_00)
        /\ nm = N_sp02 => Val(dt_arg)[11] = "1"
        /\ nm = N_iso3 => dt_arg = Some(S_2023_09)
        /\ row_start_time = ParseDt(Val(dt_arg))
        /\ Val(row_end_time) = Val(row_start_time) + 3600

C10_Witness ==
    /\ InColumns
    /\ CurRow.Name = Some(N_h03)
    /\ dt_arg = Some(S_20231015_02)
    /\ Val(row_start_time) = 1697335200
    /\ Val(row_end_time) = 1697338800

====
